---------------------------- MODULE Spec2Model ----------------------------
(***************************************************************************)
(* A model of the virtual-DOM engine of src/framework/dom.js: the tree     *)
(* descriptions, diff / diffAttrs / diffChildren, createDOMElement, patch  *)
(* / patchAttrs / patchChildren, and mount / render with the per-container *)
(* virtualTreeCache.                                                       *)
(*                                                                         *)
(* JavaScript values are records, so that values of different JavaScript   *)
(* types can be compared:                                                  *)
(*   a virtual node  [kind |-> "null" | "undefined" | "false"]             *)
(*                   [kind |-> "string", str |-> s]                        *)
(*                   [kind |-> "number", num |-> n]                        *)
(*                   [kind |-> "element", tag, attrs, children]            *)
(*   an attribute value  [t |-> typeof, v |-> identity or content]         *)
(*   an object's entries (attrs, a style object, the event registry of an  *)
(*   element): a sequence of [key, value] in insertion order.              *)
(***************************************************************************)
EXTENDS Integers, Sequences, FiniteSets, TLC

VARIABLES
    display,      \* container -> the sequence of its display children (childNodes)
    cache,        \* virtualTreeCache: container -> cached vNode, or NoEntry
    console,      \* number of console.error calls made so far
    calls,        \* number of mount / render calls made so far
    last,         \* the last mount / render call: its arguments and what it did
    hist,         \* history of the calls: per container the description of the
                  \* most recent call and whether all were clean so far, and
                  \* display and cache as they were before the last call
    dOld, dNew,   \* Differ harness: the two vNodes given to diff
    dPatch,       \* Differ harness: the patch diff returned
    dpc,          \* Differ harness: "input" before the call, "done" after it
    aOld, aNew,   \* diffAttrs harness: the two attribute mappings
    aPatches,     \* diffAttrs harness: the attribute-change list returned
    apc,          \* diffAttrs harness: "input" before the call, "done" after it
    cArg,         \* Tree Builder harness: the children argument of createElement
    cBuilt,       \* Tree Builder harness: the Element createElement returned
    cpc,          \* Tree Builder harness: "input" before the call, "done" after it
    nKey, nValue, \* binding harness: the attribute key and value bound
    nBase,        \* binding harness: the display element before the binding
    nMat,         \* binding harness: the element after createDOMElement's binding
    nPat,         \* binding harness: [node, err] after patchAttrs' binding
    npc,          \* binding harness: "input" before the calls, "done" after them
    eNode,        \* event system: the display element, with its registry entry
    eLast,        \* event system: the last call and what it did
    storeKind,    \* store: "createStore" or "Store", the constructor used
    storeState,   \* store: state
    listeners,    \* store: listeners, in subscription order
    armed,        \* store: the listeners that hold their unsubscribe function
                  \* and call it when they are notified
    unsubscribed, \* store: the listeners whose unsubscribe function has
                  \* returned since they were last subscribed
    sLast,        \* store: the last call and the notifications it made
    emitterEvents, \* EventEmitter: this.events, event name -> handlers
    wrappers,     \* EventEmitter: the wrappers made by once so far, each with
                  \* its event name and handler, the emits of the name since,
                  \* and the invocations of the handler through it
    mLast,        \* EventEmitter: the last call and the handlers it invoked
    router,       \* router: state (currentRoute, routes, callbacks, notFoundHandler)
    hash,         \* router: window.location.hash
    listening,    \* router: handleRouteChange is bound to hashchange
    rLast         \* router: the last call and the functions it invoked

domVars == <<display, cache, console, calls, last, hist>>
diffVars == <<dOld, dNew, dPatch, dpc>>
attrVars == <<aOld, aNew, aPatches, apc>>
buildVars == <<cArg, cBuilt, cpc>>
bindVars == <<nKey, nValue, nBase, nMat, nPat, npc>>
eventVars == <<eNode, eLast>>
storeVars == <<storeKind, storeState, listeners, armed, unsubscribed, sLast>>
emitterVars == <<emitterEvents, wrappers, mLast>>
routerVars == <<router, hash, listening, rLast>>
vars == <<display, cache, console, calls, last, hist,
          dOld, dNew, dPatch, dpc, aOld, aNew, aPatches, apc,
          cArg, cBuilt, cpc, nKey, nValue, nBase, nMat, nPat, npc,
          eNode, eLast,
          storeKind, storeState, listeners, armed, unsubscribed, sLast,
          emitterEvents, wrappers, mLast, router, hash, listening, rLast>>

---------------------------------------------------------------------------
(* Bounds of the model.                                                    *)

MaxChildren == 2      \* longest children list of an Element given to diff
MaxAttrs == 2         \* most keys of an attribute mapping given to diffAttrs
MaxCalls == 2         \* most mount / render calls in one behaviour
MaxGroup == 2         \* longest sequence nested in a children argument
MaxHandlers == 2      \* most handlers bound to one event of the element
MaxOnce == 2          \* most once calls on the emitter in one behaviour
MaxSubscribed == 2    \* most handlers under one event name of the emitter

---------------------------------------------------------------------------
(* JavaScript values.                                                      *)

Null == [kind |-> "null"]
Undefined == [kind |-> "undefined"]
False == [kind |-> "false"]
StringNode(s) == [kind |-> "string", str |-> s]
NumberNode(n) == [kind |-> "number", num |-> n]
Element(tag, attrs, children) ==
    [kind |-> "element", tag |-> tag, attrs |-> attrs, children |-> children]

\* a JavaScript array met where a child is expected
Array(items) == [kind |-> "array", items |-> items]

\* Array.prototype.flat(): the default depth is 1, so the elements of the
\* arrays among the items are spliced in, and arrays inside them are kept
RECURSIVE Flat(_)
Flat(items) ==
    IF items = <<>> THEN <<>>
    ELSE LET head == items[1]
         IN  (IF head.kind = "array" THEN head.items ELSE <<head>>)
                 \o Flat(Tail(items))

\* createElement(tag, attrs, children)
createElement(tag, attrs, children) == Element(tag, attrs, Flat(children))

\* typeof vNode
TypeOf(node) ==
    CASE node.kind = "null" -> "object"
      [] node.kind = "undefined" -> "undefined"
      [] node.kind = "false" -> "boolean"
      [] node.kind = "string" -> "string"
      [] node.kind = "number" -> "number"
      [] node.kind = "element" -> "object"

\* !vNode: the JavaScript falsy values among the virtual nodes
Falsy(node) ==
    \/ node.kind \in {"null", "undefined", "false"}
    \/ node.kind = "string" /\ node.str = ""
    \/ node.kind = "number" /\ node.num = 0

\* attribute values
StrVal(s) == [t |-> "string", v |-> s]
BoolVal(b) == [t |-> "boolean", v |-> b]        \* b is "true" or "false"
FnVal(f) == [t |-> "function", v |-> f]
ObjVal(o) == [t |-> "object", v |-> o]
UndefinedVal == [t |-> "undefined", v |-> "undefined"]

\* an object's own entries, in insertion order
Entry(key, value) == [key |-> key, value |-> value]
Keys(obj) == {obj[i].key : i \in 1..Len(obj)}
HasKey(obj, key) == key \in Keys(obj)
\* obj[key]: undefined when the key is missing
Get(obj, key) ==
    IF HasKey(obj, key)
    THEN obj[CHOOSE i \in 1..Len(obj) : obj[i].key = key].value
    ELSE UndefinedVal

\* obj[key] = value: an existing key keeps its place, a new key goes last
Put(obj, key, value) ==
    IF HasKey(obj, key)
    THEN [i \in 1..Len(obj) |->
            IF obj[i].key = key THEN Entry(key, value) ELSE obj[i]]
    ELSE Append(obj, Entry(key, value))

\* delete obj[key]
Delete(obj, key) ==
    LET Other(e) == e.key # key IN SelectSeq(obj, Other)

\* array.indexOf(x), 1-based: 0 when x is not an element
IndexOf(array, x) ==
    IF \E i \in 1..Len(array) : array[i] = x
    THEN CHOOSE i \in 1..Len(array) :
             array[i] = x /\ \A j \in 1..(i - 1) : array[j] # x
    ELSE 0

\* array.splice(i, 1), 1-based
Splice(array, i) ==
    [j \in 1..(Len(array) - 1) |-> IF j < i THEN array[j] ELSE array[j + 1]]

---------------------------------------------------------------------------
(* Differ: diff, diffAttrs, diffChildren.                                  *)

NoPatch == [type |-> "NONE"]      \* diff returns null
CreatePatch(newNode) == [type |-> "CREATE", newNode |-> newNode]
RemovePatch == [type |-> "REMOVE"]
ReplacePatch(newNode) == [type |-> "REPLACE", newNode |-> newNode]
UpdatePatch(attrs, children) ==
    [type |-> "UPDATE", attrs |-> attrs, children |-> children]

\* the first loop of diffAttrs: new or changed attributes
\* variant for the sensitivity of C9: a key that old lacks is not reported
ChangedAttrsOfOldKeys(oldAttrs, newAttrs) ==
    LET Changed(e) == HasKey(oldAttrs, e.key) /\ Get(oldAttrs, e.key) # e.value
        changed == SelectSeq(newAttrs, Changed)
    IN  [i \in 1..Len(changed) |-> Entry(changed[i].key, changed[i].value)]
ChangedAttrs(oldAttrs, newAttrs) ==
    LET Changed(e) == Get(oldAttrs, e.key) # e.value
        changed == SelectSeq(newAttrs, Changed)
    IN  [i \in 1..Len(changed) |-> Entry(changed[i].key, changed[i].value)]

\* the second loop of diffAttrs: removed attributes
RemovedAttrs(oldAttrs, newAttrs) ==
    LET Removed(e) == ~HasKey(newAttrs, e.key)
        removed == SelectSeq(oldAttrs, Removed)
    IN  [i \in 1..Len(removed) |-> Entry(removed[i].key, UndefinedVal)]

diffAttrs(oldAttrs, newAttrs) ==
    ChangedAttrs(oldAttrs, newAttrs) \o RemovedAttrs(oldAttrs, newAttrs)

\* array[i] with a JavaScript (0-based) index: undefined when out of range
At(array, i) == IF i >= 0 /\ i < Len(array) THEN array[i + 1] ELSE Undefined

\* variant of MathMax for the sensitivity of C10: Math.min in its place
MathMin(a, b) == IF a <= b THEN a ELSE b
MathMax(a, b) == IF a >= b THEN a ELSE b

RECURSIVE diff(_, _)
RECURSIVE diffChildren(_, _)

diff(oldNode, newNode) ==
    IF Falsy(oldNode) THEN CreatePatch(newNode)
    ELSE IF Falsy(newNode) THEN RemovePatch
    ELSE IF TypeOf(oldNode) # TypeOf(newNode) THEN ReplacePatch(newNode)
    ELSE IF TypeOf(newNode) \in {"string", "number"}
         THEN IF oldNode # newNode THEN ReplacePatch(newNode) ELSE NoPatch
    ELSE IF oldNode.tag # newNode.tag THEN ReplacePatch(newNode)
    ELSE UpdatePatch(diffAttrs(oldNode.attrs, newNode.attrs),
                     diffChildren(oldNode.children, newNode.children))

diffChildren(oldChildren, newChildren) ==
    LET maxLength == MathMax(Len(oldChildren), Len(newChildren))
    IN  [n \in 1..maxLength |-> diff(At(oldChildren, n - 1), At(newChildren, n - 1))]

---------------------------------------------------------------------------
(* Display tree (the DOM surface the engine uses) and the event registry.  *)
(* A display node is a record; a text node has no attributes and no        *)
(* children, and an element's entry of eventRegistry is its field events.  *)

NoNode == [nodeType |-> "none"]       \* null / undefined where a node is expected

\* document.createTextNode(data)
TextNode(data) ==
    [nodeType |-> "text", tag |-> "#text", data |-> data,
     attributes |-> <<>>, props |-> <<>>, style |-> <<>>,
     events |-> <<>>, native |-> {}, childNodes |-> <<>>]

\* document.createElement(tag)
ElementNode(tag) ==
    [nodeType |-> "element", tag |-> tag, data |-> "",
     attributes |-> <<>>, props |-> <<>>, style |-> <<>>,
     events |-> <<>>, native |-> {}, childNodes |-> <<>>]

Digit == <<"0", "1", "2", "3", "4", "5", "6", "7", "8", "9">>

\* String(n) of a non-negative integer
RECURSIVE NumberToString(_)
NumberToString(n) ==
    IF n < 10 THEN Digit[n + 1]
    ELSE NumberToString(n \div 10) \o Digit[(n % 10) + 1]

\* String(vNode) of a text vNode
StringOf(vNode) ==
    IF vNode.kind = "string" THEN vNode.str ELSE NumberToString(vNode.num)

\* String(value) of an attribute value, as setAttribute and className store it
AttrString(value) ==
    CASE value.t = "string" -> value.v
      [] value.t = "boolean" -> value.v
      [] value.t = "number" -> value.v
      [] value.t = "undefined" -> "undefined"
      [] value.t = "function" -> "function " \o value.v
      [] value.t = "object" -> "[object Object]"

\* The attribute keys of the model that start with 'on', each with
\* key.slice(2).toLowerCase().
OnKeyEvent ==
    [onClick |-> "click", onInput |-> "input", onChange |-> "change"]
StartsWithOn(key) == key \in DOMAIN OnKeyEvent
EventNameOf(key) == OnKeyEvent[key]

\* The entries of the style objects of the model, by object identity.
StyleEntries(obj) ==
    CASE obj = "styleRed" -> <<Entry("color", "red")>>
      [] obj = "styleBig" -> <<Entry("fontSize", "20px")>>
      [] OTHER -> <<>>

\* variant for the sensitivity of C14: the handler takes the place of the
\* handlers bound before
bindEventReplacing(element, event, handler) ==
    [element EXCEPT !.events = Put(element.events, event, <<handler>>),
                    !.native = @ \cup {event}]

\* bindEvent(element, event, handler)
bindEvent(element, event, handler) ==
    LET first == ~HasKey(element.events, event)
        handlers == IF first THEN <<>> ELSE Get(element.events, event)
    IN  [element EXCEPT
            !.events = Put(element.events, event, Append(handlers, handler)),
            !.native = IF first THEN @ \cup {event} ELSE @]

\* The event names of the model, each with event.replace(/^on/, '').
StripOn ==
    [click |-> "click", onclick |-> "click", online |-> "line", line |-> "line"]

\* events?.[event] || [] of the registry entry of the element
HandlersOf(element, event) ==
    IF HasKey(element.events, event) THEN Get(element.events, event) ELSE <<>>

\* addListener(element, event, handler); the cleanup function it returns is
\* removeListener(element, cleanEvent, handler)
addListener(element, event, handler) == bindEvent(element, StripOn[event], handler)

\* variant for the sensitivity of C22: the on<event> property is left set
\* when the last handler goes
removeListenerKeepingNative(element, event, handler) ==
    LET cleanEvent == StripOn[event]
        handlers == HandlersOf(element, cleanEvent)
        index == IndexOf(handlers, handler)
    IN  IF handlers = <<>> \/ index = 0 THEN element
        ELSE IF Len(handlers) = 1
        THEN [element EXCEPT !.events = Delete(@, cleanEvent)]
        ELSE [element EXCEPT
                 !.events = Put(@, cleanEvent, Splice(handlers, index))]

\* removeListener(element, event, handler)
removeListener(element, event, handler) ==
    LET cleanEvent == StripOn[event]
        handlers == HandlersOf(element, cleanEvent)
        index == IndexOf(handlers, handler)
    IN  IF handlers = <<>> \/ index = 0 THEN element
        ELSE IF Len(handlers) = 1
        THEN [element EXCEPT !.events = Delete(@, cleanEvent),
                             !.native = @ \ {cleanEvent}]
        ELSE [element EXCEPT
                 !.events = Put(@, cleanEvent, Splice(handlers, index))]

\* removeAllListeners(element)
removeAllListeners(element) ==
    [element EXCEPT !.events = <<>>, !.native = @ \ Keys(element.events)]

\* the event fires on the element: element['on' + event](e), when it is set,
\* runs events[event].forEach(fn => fn(e)); the result is the handlers
\* invoked, in order, or the exception
dispatchEvent(element, event) ==
    IF event \notin element.native THEN [invoked |-> <<>>, err |-> "none"]
    ELSE IF ~HasKey(element.events, event)
    THEN [invoked |-> <<>>, err |-> "TypeError"]
    ELSE [invoked |-> Get(element.events, event), err |-> "none"]

\* element.setAttribute(key, value)
setAttribute(element, key, value) ==
    [element EXCEPT !.attributes = Put(@, key, AttrString(value))]

\* variant for the sensitivity of C21: removing an on-prefixed key also
\* takes the handlers of its event out of the registry
removeAttributeUnbinding(element, key) ==
    [element EXCEPT
        !.attributes = Delete(@, key),
        !.style = IF key = "style" THEN <<>> ELSE @,
        !.events = IF StartsWithOn(key) THEN Delete(@, EventNameOf(key)) ELSE @,
        !.native = IF StartsWithOn(key) THEN @ \ {EventNameOf(key)} ELSE @]

\* element.removeAttribute(key): removes the content attribute, and with the
\* style attribute the inline style it reflects; a property assigned as
\* element[key] = value is not an attribute and stays
removeAttribute(element, key) ==
    [element EXCEPT !.attributes = Delete(@, key),
                    !.style = IF key = "style" THEN <<>> ELSE @]

\* element.className = value: reflected by the class attribute on an
\* element, an own property on any other node
setClassName(element, value) ==
    IF element.nodeType = "element"
    THEN setAttribute(element, "class", value)
    ELSE [element EXCEPT !.props = Put(@, "className", value)]

\* element[key] = value
setProperty(element, key, value) ==
    [element EXCEPT !.props = Put(@, key, value)]

\* Object.assign(element.style, value)
RECURSIVE assignStyle(_, _, _)
assignStyle(style, entries, i) ==
    IF i > Len(entries) THEN style
    ELSE assignStyle(Put(style, entries[i].key, entries[i].value), entries, i + 1)

LiveKeysCreate == {"checked", "disabled", "selected"}
LiveKeysPatch == {"checked", "disabled", "value"}

\* one iteration of the attribute loop of createDOMElement
bindAttr(element, key, value) ==
    IF StartsWithOn(key) /\ value.t = "function"
    THEN bindEvent(element, EventNameOf(key), value)
    ELSE IF key = "className" \/ key = "class"
    THEN setClassName(element, value)
    ELSE IF key = "style" /\ value.t = "object"
    THEN [element EXCEPT !.style = assignStyle(@, StyleEntries(value.v), 1)]
    ELSE IF key \in LiveKeysCreate
    THEN setProperty(element, key, value)
    ELSE IF key = "value"
    THEN setProperty(element, "value", value)
    ELSE setAttribute(element, key, value)

RECURSIVE bindAttrs(_, _, _)
bindAttrs(element, attrs, i) ==
    IF i > Len(attrs) THEN element
    ELSE bindAttrs(bindAttr(element, attrs[i].key, attrs[i].value), attrs, i + 1)

\* element.appendChild(child), when element is an element
appendNode(element, child) ==
    [element EXCEPT !.childNodes = Append(@, child)]

RECURSIVE createDOMElement(_)
RECURSIVE appendChildren(_, _, _)

createDOMElement(vNode) ==
    IF vNode.kind \in {"null", "undefined", "false"} THEN NoNode
    ELSE IF vNode.kind \in {"string", "number"} THEN TextNode(StringOf(vNode))
    ELSE appendChildren(bindAttrs(ElementNode(vNode.tag), vNode.attrs, 1),
                        vNode.children, 1)

\* the child loop of createDOMElement
appendChildren(element, children, i) ==
    IF i > Len(children) THEN element
    ELSE LET childElement == createDOMElement(children[i])
         IN  appendChildren(
                 IF childElement # NoNode THEN appendNode(element, childElement)
                 ELSE element,
                 children, i + 1)

---------------------------------------------------------------------------
(* Patcher: patch, patchAttrs, patchChildren.  The state threaded through  *)
(* a patch is [node, log, err]: the parent display node, the structural    *)
(* DOM calls made so far, and the exception being thrown ("none" if none). *)
(* A thrown exception leaves the mutations made before it in place.        *)

PatchState(node, log, err) == [node |-> node, log |-> log, err |-> err]

\* parent.childNodes[index]
ChildAt(parent, index) ==
    IF index >= 0 /\ index < Len(parent.childNodes)
    THEN parent.childNodes[index + 1]
    ELSE NoNode

\* parent.appendChild(child): a text node accepts no child
appendChild(st, child) ==
    IF st.node.nodeType = "text"
    THEN [st EXCEPT !.err = "HierarchyRequestError"]
    ELSE [st EXCEPT !.node = appendNode(@, child),
                    !.log = Append(@, "appendChild")]

\* parent.removeChild(parent.childNodes[index])
removeChild(st, index) ==
    [st EXCEPT
        !.node.childNodes =
            [i \in 1..(Len(@) - 1) |-> IF i <= index THEN @[i] ELSE @[i + 1]],
        !.log = Append(@, "removeChild")]

\* parent.replaceChild(newElement, parent.childNodes[index])
replaceChild(st, newElement, index) ==
    [st EXCEPT !.node.childNodes[index + 1] = newElement,
               !.log = Append(@, "replaceChild")]

\* one iteration of the loop of patchAttrs, on [node, err]; setAttribute,
\* removeAttribute and style exist on elements only
patchAttr(r, key, value) ==
    LET element == r.node
        isElement == element.nodeType = "element"
    IN  IF StartsWithOn(key) /\ value.t = "function"
        THEN [r EXCEPT !.node = bindEvent(element, EventNameOf(key), value)]
        ELSE IF value = UndefinedVal
        THEN IF isElement
             THEN [r EXCEPT !.node = removeAttribute(element, key)]
             ELSE [r EXCEPT !.err = "TypeError"]
        ELSE IF key = "className" \/ key = "class"
        THEN [r EXCEPT !.node = setClassName(element, value)]
        ELSE IF key = "style" /\ value.t = "object"
        THEN IF isElement
             THEN [r EXCEPT !.node.style = assignStyle(@, StyleEntries(value.v), 1)]
             ELSE [r EXCEPT !.err = "TypeError"]
        ELSE IF key \in LiveKeysPatch
        THEN [r EXCEPT !.node = setProperty(element, key, value)]
        ELSE IF isElement
             THEN [r EXCEPT !.node = setAttribute(element, key, value)]
             ELSE [r EXCEPT !.err = "TypeError"]

RECURSIVE patchAttrsFrom(_, _, _)
patchAttrsFrom(r, attrPatches, i) ==
    IF i > Len(attrPatches) \/ r.err # "none" THEN r
    ELSE patchAttrsFrom(patchAttr(r, attrPatches[i].key, attrPatches[i].value),
                        attrPatches, i + 1)

patchAttrs(element, attrPatches) ==
    patchAttrsFrom([node |-> element, err |-> "none"], attrPatches, 1)

RECURSIVE patch(_, _, _)
RECURSIVE patchChildrenFrom(_, _, _)
RECURSIVE patchChildren(_, _)

\* case 'UPDATE' of patch, when parent.childNodes[index] exists
patchUpdate(st, patches, index) ==
    LET element == ChildAt(st.node, index)
        a == patchAttrs(element, patches.attrs)
        c == IF a.err # "none"
             THEN PatchState(a.node, st.log, a.err)
             ELSE patchChildren(PatchState(a.node, st.log, "none"),
                                patches.children)
    IN  [st EXCEPT !.node.childNodes[index + 1] = c.node,
                   !.log = c.log,
                   !.err = c.err]

\* case 'UPDATE' of patch, when parent.childNodes[index] does not exist: the
\* patch is skipped (the log entry records the skip, the DOM is not touched)
patchUpdateMissing(st) == [st EXCEPT !.log = Append(@, "skipUpdate")]

patch(st, patches, index) ==
    IF patches.type = "NONE" THEN st
    ELSE
    LET element == ChildAt(st.node, index)
    IN  CASE patches.type = "CREATE" ->
                LET newElement == createDOMElement(patches.newNode)
                IN  IF newElement # NoNode THEN appendChild(st, newElement) ELSE st
          [] patches.type = "REMOVE" ->
                IF element # NoNode THEN removeChild(st, index) ELSE st
          [] patches.type = "REPLACE" ->
                LET newElement == createDOMElement(patches.newNode)
                IN  IF element # NoNode /\ newElement # NoNode
                    THEN replaceChild(st, newElement, index)
                    ELSE IF newElement # NoNode
                    THEN appendChild(st, newElement)
                    ELSE st
          [] patches.type = "UPDATE" ->
                IF element # NoNode
                THEN patchUpdate(st, patches, index)
                ELSE patchUpdateMissing(st)

\* the loop of patchChildren, from index i on: an exception thrown by a
\* child patch leaves the loop (the log entry records that indices remained)
patchChildrenFrom(st, childPatches, i) ==
    IF i >= Len(childPatches) THEN st
    ELSE IF st.err # "none" THEN [st EXCEPT !.log = Append(@, "skipSiblings")]
    ELSE patchChildrenFrom(patch(st, childPatches[i + 1], i), childPatches, i + 1)

patchChildren(st, childPatches) == patchChildrenFrom(st, childPatches, 0)

---------------------------------------------------------------------------
(* Mount Coordinator: mount, render and virtualTreeCache.                  *)

Containers == {"c1", "c2"}
NoContainer == "none"

\* document.querySelector(selector): the document holds c1 as #app
\* variant for the sensitivity of C6: an unmatched selector falls back to c1
querySelectorFirstContainer(selector) == "c1"
querySelector(selector) == IF selector = "#app" THEN "c1" ELSE NoContainer

\* targets: a display node, a selector string, or null
ElementTarget(c) == [t |-> "element", v |-> c]
SelectorTarget(selector) == [t |-> "string", v |-> selector]
NullTarget == [t |-> "null", v |-> "null"]

\* typeof target === 'string' ? document.querySelector(target) : target
Resolve(target) ==
    CASE target.t = "string" -> querySelector(target.v)
      [] target.t = "element" -> target.v
      [] target.t = "null" -> NoContainer

NoEntry == [kind |-> "noentry"]      \* the WeakMap holds no entry for the key

\* virtualTreeCache.get(container)
CacheGet(c) == IF cache[c] = NoEntry THEN Undefined ELSE cache[c]

\* the container as the parent display node of patch
ContainerNode(children) == [ElementNode("container") EXCEPT !.childNodes = children]

\* the first-render branch of mount: innerHTML = '', then append
\* variant for the sensitivity of C4: the container is not cleared first
MountFirstKeepContent(children, vNode) ==
    LET element == createDOMElement(vNode)
    IN  PatchState(ContainerNode(IF element # NoNode
                                 THEN Append(children, element) ELSE children),
                   <<"appendChild">>, "none")
MountFirst(children, vNode) ==
    LET element == createDOMElement(vNode)
    IN  IF element # NoNode
        THEN PatchState(ContainerNode(<<element>>), <<"appendChild">>, "none")
        ELSE PatchState(ContainerNode(<<>>), <<>>, "none")

\* the update branch of mount: diff, then patch at index 0
MountUpdate(children, oldVNode, vNode) ==
    patch(PatchState(ContainerNode(children), <<>>, "none"),
          diff(oldVNode, vNode), 0)

LastCall(op, target, vNode, container, outcome, entry, before, log) ==
    [op |-> op, target |-> target, vNode |-> vNode, container |-> container,
     outcome |-> outcome, entry |-> entry, before |-> before, log |-> log]

\* mount(target, vNode); op names the entry point for the record of the call
mount(target, vNode, op) ==
    LET container == Resolve(target)
    IN  IF container = NoContainer
        THEN /\ console' = console + 1
             /\ last' = LastCall(op, target, vNode, NoContainer, "notfound",
                                 NoEntry, <<>>, <<>>)
             /\ UNCHANGED <<display, cache>>
        ELSE LET oldVNode == CacheGet(container)
                 first == Falsy(oldVNode)
                 st == IF first
                       THEN MountFirst(display[container], vNode)
                       ELSE MountUpdate(display[container], oldVNode, vNode)
             IN  /\ display' = [display EXCEPT ![container] = st.node.childNodes]
                 /\ cache' = IF st.err = "none"
                             THEN [cache EXCEPT ![container] = vNode]
                             ELSE cache
                 /\ last' = LastCall(op, target, vNode, container,
                                     IF st.err # "none" THEN "threw"
                                     ELSE IF first THEN "first" ELSE "update",
                                     cache[container], display[container], st.log)
                 /\ UNCHANGED console

\* components given to render: a producer function or a description
FunctionComponent(vNode) == [t |-> "function", returns |-> vNode]
ValueComponent(vNode) == [t |-> "value", value |-> vNode]

\* typeof component === 'function' ? component() : component
ComponentVNode(component) ==
    IF component.t = "function" THEN component.returns ELSE component.value

render(component, target) == mount(target, ComponentVNode(component), "render")

---------------------------------------------------------------------------
(* State stores: createStore and class Store of src/framework/state.js.    *)
(* A state is an object; a listener is a function identity.  The listeners *)
(* of SelfUnsubscribing call the unsubscribe function they hold when they  *)
(* are notified; the other listeners do not call back into the store.      *)

SelfUnsubscribing == {"l1"}

\* an argument of setState: a state, or an updater function
StateArg(obj) == [t |-> "object", v |-> obj]
UpdaterArg(f) == [t |-> "function", v |-> f]

\* the updater functions of the model, applied to a state
ApplyUpdater(f, state) ==
    CASE f = "clear" -> <<>>
      [] f = "touch" -> Put(state, "touched", "yes")

\* { ...a, ...b }
Spread(a, b) == assignStyle(a, b, 1)

\* the state setState assigns: createStore takes the argument, class Store
\* merges it into the state; both apply an updater function to the state
setStateValue(kind, state, newState) ==
    IF newState.t = "function" THEN ApplyUpdater(newState.v, state)
    ELSE IF kind = "Store" THEN Spread(state, newState.v)
    ELSE newState.v

\* the listeners of a store during a call, with the notifications made
Notifying(list, arm, unsub) ==
    [listeners |-> list, armed |-> arm, unsubscribed |-> unsub, notified |-> <<>>]

\* the unsubscribe function of fn: indexOf, then splice
unsubscribe(st, fn) ==
    LET index == IndexOf(st.listeners, fn)
    IN  [st EXCEPT !.listeners = IF index > 0 THEN Splice(@, index) ELSE @,
                   !.armed = @ \ {fn},
                   !.unsubscribed = @ \cup {fn}]

\* fn(state): the listener runs, and calls its unsubscribe function if it
\* is one that does and holds it
notify(st, fn, state) ==
    LET called == [st EXCEPT !.notified = Append(@, [fn |-> fn, state |-> state])]
    IN  IF fn \in st.armed THEN unsubscribe(called, fn) ELSE called

\* listeners.forEach(fn => fn(state)), from index k on: forEach visits the
\* indices below the length the array had when it started, and reads each
\* element from the array as it is when the index is reached
RECURSIVE forEachListener(_, _, _, _)
forEachListener(st, state, k, len) ==
    IF k >= len THEN st
    ELSE IF k >= Len(st.listeners) THEN forEachListener(st, state, k + 1, len)
    ELSE forEachListener(notify(st, st.listeners[k + 1], state), state, k + 1, len)

notifyAll(st, state) == forEachListener(st, state, 0, Len(st.listeners))

\* subscribe(fn): push, call fn with the current state, return the
\* unsubscribe function
subscribe(st, fn, state) ==
    LET pushed == [st EXCEPT !.listeners = Append(@, fn),
                             !.unsubscribed = @ \ {fn}]
        called == notify(pushed, fn, state)
    IN  [called EXCEPT !.armed = IF fn \in SelfUnsubscribing
                                 THEN @ \cup {fn} ELSE @]

---------------------------------------------------------------------------
(* EventEmitter of src/framework/events.js.  A handler in a list is a      *)
(* function given to on, or a wrapper made by once; wrapper i is the i-th  *)
(* made.  The handlers of SelfOff call off for themselves when invoked;    *)
(* the other handlers do not call back into the emitter.                   *)

SelfOff == {"h2"}

Plain(handler) == [kind |-> "function", fn |-> handler]
Wrapper(i) == [kind |-> "wrapper", id |-> i]

\* the emitter during a call, with the handlers invoked
Emitting(events, made) == [events |-> events, wrappers |-> made, invoked |-> <<>>]

\* this.events[eventName] || []
Subscribed(events, name) == IF HasKey(events, name) THEN Get(events, name) ELSE <<>>

\* on(eventName, handler)
on(st, name, handler) ==
    [st EXCEPT !.events = Put(@, name, Append(Subscribed(@, name), handler))]

\* once(eventName, handler): makes the wrapper and registers it with on
once(st, name, handler) ==
    LET made == [st EXCEPT !.wrappers =
                    Append(@, [name |-> name, handler |-> handler,
                               emits |-> 0, fired |-> 0, removed |-> FALSE])]
    IN  on(made, name, Wrapper(Len(made.wrappers)))

\* off(eventName, handler)
off(st, name, handler) ==
    IF ~HasKey(st.events, name) THEN st
    ELSE LET handlers == Get(st.events, name)
             index == IndexOf(handlers, handler)
         IN  IF index > 0
             THEN [st EXCEPT !.events = Put(@, name, Splice(handlers, index))]
             ELSE st

\* handler(payload) inside emit: a wrapper calls its handler and then off
\* for itself; a function of SelfOff calls off for itself
invoke(st, name, handler, payload) ==
    IF handler.kind = "wrapper"
    THEN LET w == st.wrappers[handler.id]
             called == [st EXCEPT
                 !.invoked = Append(@, [fn |-> w.handler, payload |-> payload]),
                 !.wrappers[handler.id].fired = @ + 1]
         IN  off(called, name, handler)
    ELSE LET called == [st EXCEPT
                 !.invoked = Append(@, [fn |-> handler.fn, payload |-> payload])]
         IN  IF handler.fn \in SelfOff THEN off(called, name, handler) ELSE called

\* handlers.forEach(handler => handler(payload)), from index k on
RECURSIVE forEachHandler(_, _, _, _, _)
forEachHandler(st, name, payload, k, len) ==
    LET handlers == Subscribed(st.events, name)
    IN  IF k >= len THEN st
        ELSE IF k >= Len(handlers) THEN forEachHandler(st, name, payload, k + 1, len)
        ELSE forEachHandler(invoke(st, name, handlers[k + 1], payload),
                            name, payload, k + 1, len)

\* one more emit of the name for every wrapper registered under it
CountEmit(made, name) ==
    [i \in 1..Len(made) |->
        IF made[i].name = name /\ made[i].emits < 2
        THEN [made[i] EXCEPT !.emits = @ + 1]
        ELSE made[i]]

\* emit(eventName, payload)
emit(st, name, payload) ==
    IF ~HasKey(st.events, name) THEN [st EXCEPT !.wrappers = CountEmit(@, name)]
    ELSE forEachHandler([st EXCEPT !.wrappers = CountEmit(@, name)],
                        name, payload, 0, Len(Get(st.events, name)))

\* the wrappers that removeAll takes out of the lists
MarkRemoved(st, name) ==
    [i \in 1..Len(st.wrappers) |->
        IF (name = "undefined" \/ st.wrappers[i].name = name)
           /\ IndexOf(Subscribed(st.events, st.wrappers[i].name), Wrapper(i)) > 0
        THEN [st.wrappers[i] EXCEPT !.removed = TRUE]
        ELSE st.wrappers[i]]

\* removeAll(eventName): eventName is "undefined" when it is not given
removeAll(st, name) ==
    [st EXCEPT !.events = IF name = "undefined" THEN <<>> ELSE Delete(@, name),
               !.wrappers = MarkRemoved(st, name)]

---------------------------------------------------------------------------
(* Router of src/framework/router.js.  A path or a route pattern is the    *)
(* sequence of its segments, as split('/') gives them; a segment is its    *)
(* text after a leading ':' and whether it has one.  Route handlers and    *)
(* callbacks are function identities that do not call back into the        *)
(* router.                                                                 *)

Seg(text) == [colon |-> FALSE, text |-> text]
Param(name) == [colon |-> TRUE, text |-> name]
SegString(seg) == (IF seg.colon THEN ":" ELSE "") \o seg.text

NoHandler == "null"
NoParams == [kind |-> "null"]
NoMatch == [kind |-> "null"]
Params(entries) == [kind |-> "object", entries |-> entries]

\* window.location.hash: "" or '#' followed by a path
NoHash == [empty |-> TRUE, path |-> <<>>]
Hash(path) == [empty |-> FALSE, path |-> path]

\* the path "/"
RootPath == <<Seg(""), Seg("")>>

\* getCleanRoute: window.location.hash.slice(1) || '/'
getCleanRoute(h) == IF h.empty THEN RootPath ELSE h.path

\* the module's state at load
RouterState ==
    [currentRoute |-> RootPath, routes |-> <<>>, callbacks |-> <<>>,
     notFoundHandler |-> NoHandler]

\* the router during a call, with the functions invoked
Routing(state) == [state |-> state, invoked |-> <<>>]

\* variant for the sensitivity of C19: the lengths are not compared
RECURSIVE matchParts(_, _, _, _)
matchRouteAnyLength(routePattern, actualPath) ==
    matchParts(routePattern, actualPath, 1, <<>>)

\* the loop of matchRoute, from part i on
matchParts(routeParts, pathParts, i, params) ==
    IF i > Len(routeParts) THEN Params(params)
    ELSE IF routeParts[i].colon
    THEN matchParts(routeParts, pathParts, i + 1,
                    Put(params, routeParts[i].text,
                        IF i <= Len(pathParts) THEN SegString(pathParts[i])
                        ELSE "undefined"))
    ELSE IF i > Len(pathParts) \/ routeParts[i] # pathParts[i] THEN NoMatch
    ELSE matchParts(routeParts, pathParts, i + 1, params)

\* matchRoute(routePattern, actualPath)
matchRoute(routePattern, actualPath) ==
    IF Len(routePattern) # Len(actualPath) THEN NoMatch
    ELSE matchParts(routePattern, actualPath, 1, <<>>)

RouteCall(handler, params) == [kind |-> "route", fn |-> handler, params |-> params]
NotFoundCall(handler, path) == [kind |-> "notFound", fn |-> handler, path |-> path]
CallbackCall(fn, path, params) ==
    [kind |-> "callback", fn |-> fn, path |-> path, params |-> params]

\* state.callbacks.forEach(fn => fn(path, params))
notifyCallbacks(st, path, params) ==
    [st EXCEPT !.invoked =
        @ \o [i \in 1..Len(st.state.callbacks) |->
                 CallbackCall(st.state.callbacks[i], path, params)]]

\* the loop of handleRouteChange over Object.entries(state.routes), from
\* entry i on, and what follows it when no pattern matches
RECURSIVE dispatchFrom(_, _, _)
dispatchFrom(st, path, i) ==
    IF i > Len(st.state.routes)
    THEN notifyCallbacks(
             IF st.state.notFoundHandler # NoHandler
             THEN [st EXCEPT !.invoked =
                      Append(@, NotFoundCall(st.state.notFoundHandler, path))]
             ELSE st,
             path, NoParams)
    ELSE LET params == matchRoute(st.state.routes[i].key, path)
         IN  IF params # NoMatch
             THEN notifyCallbacks(
                      [st EXCEPT !.invoked =
                          Append(@, RouteCall(st.state.routes[i].value, params))],
                      path, params)
             ELSE dispatchFrom(st, path, i + 1)

\* handleRouteChange()
handleRouteChange(st, h) ==
    LET path == getCleanRoute(h)
    IN  dispatchFrom([st EXCEPT !.state.currentRoute = path], path, 1)

\* addRoute(path, handler)
addRoute(st, path, handler) == [st EXCEPT !.state.routes = Put(@, path, handler)]

\* setNotFound(handler)
setNotFound(st, handler) == [st EXCEPT !.state.notFoundHandler = handler]

\* onRouteChange(callback)
onRouteChange(st, callback) == [st EXCEPT !.state.callbacks = Append(@, callback)]

\* the unsubscribe function onRouteChange(callback) returned
offRouteChange(st, callback) ==
    LET index == IndexOf(st.state.callbacks, callback)
    IN  IF index > 0 THEN [st EXCEPT !.state.callbacks = Splice(@, index)] ELSE st

---------------------------------------------------------------------------
(* The inputs of the model.                                                *)

SeqsUpTo(S, n) == UNION {[1..k -> S] : k \in 0..n}

Span(children) == Element("span", <<>>, children)
Div(attrs, children) == Element("div", attrs, children)

\* children of the mounted descriptions
MountChildren ==
    {Null, StringNode("a"), NumberNode(0), Span(<<>>), Span(<<StringNode("a")>>)}

MountChildLists ==
    {<<>>} \cup {<<x>> : x \in MountChildren}
           \cup {<<x, y>> : x, y \in MountChildren}
           \cup {<<StringNode("a"), StringNode("b"), StringNode("c")>>,
                 <<Null, Span(<<>>), StringNode("a")>>,
                 <<Null, Span(<<StringNode("a")>>), StringNode("a")>>,
                 <<Null, Span(<<StringNode("a")>>), StringNode("b")>>}

MountAttrs ==
    {<<Entry("id", StrVal("x"))>>,
     <<Entry("class", StrVal("a")), Entry("onClick", FnVal("f1"))>>,
     <<Entry("onClick", FnVal("f2"))>>,
     <<Entry("checked", BoolVal("true")), Entry("style", ObjVal("styleRed"))>>}

\* the descriptions mounted into the main container
MountNodes ==
    {Null, StringNode("a"), NumberNode(0)}
        \cup {Div(<<>>, l) : l \in MountChildLists}
        \cup {Div(a, <<>>) : a \in MountAttrs}

\* the descriptions given to the other targets and to render
SmallNodes == {Null, StringNode("a"), Div(<<>>, <<NumberNode(0)>>)}

MountInputs ==
    {<<ElementTarget("c1"), v>> : v \in MountNodes}
        \cup {<<t, v>> : t \in {ElementTarget("c2"), SelectorTarget("#app"),
                               SelectorTarget("#missing"), NullTarget},
                        v \in SmallNodes}

RenderInputs ==
    {<<c, t>> : c \in {FunctionComponent(Div(<<>>, <<StringNode("a")>>)),
                       ValueComponent(StringNode("a"))},
                t \in {ElementTarget("c1"), SelectorTarget("#app"),
                       SelectorTarget("#missing")}}

\* a description in which no child, at any depth, is Absent, "" or 0 (and
\* which is none of these itself)
RECURSIVE Clean(_)
Clean(vNode) ==
    /\ ~Falsy(vNode)
    /\ vNode.kind = "element" =>
          \A i \in 1..Len(vNode.children) : Clean(vNode.children[i])

\* what a container may hold before the first render into it
InitialContents == {<<>>, <<TextNode("loading")>>}

\* the vNodes given to diff
DiffLeaves ==
    {Null, Undefined, False, StringNode(""), StringNode("a"), StringNode("b"),
     NumberNode(0), NumberNode(1)}
DiffChildren ==
    {Null, StringNode(""), StringNode("a"),
     Span(<<>>), Span(<<StringNode("a")>>), Span(<<NumberNode(0)>>)}
DiffAttrs == {<<>>, <<Entry("id", StrVal("x"))>>}
DiffNodes ==
    DiffLeaves \cup
    {Element(tag, a, l) : tag \in {"div", "span"}, a \in DiffAttrs,
                          l \in SeqsUpTo(DiffChildren, MaxChildren)}

\* the children arguments given to createElement: leaves, sequences of
\* leaves, and sequences holding such sequences
BuildLeaves == {StringNode("a"), Span(<<>>)}
Groups1 == {Array(l) : l \in SeqsUpTo(BuildLeaves, MaxGroup)}
Groups2 == {Array(l) : l \in SeqsUpTo(BuildLeaves \cup Groups1, 1)}
Groups3 == {Array(<<g>>) : g \in Groups2}
ChildrenArgs == SeqsUpTo(BuildLeaves \cup Groups1 \cup Groups2 \cup Groups3, 2)

\* the keys and values bound to a display element, and the element before
\* the binding: a new one, or one that carries earlier bindings
BindKeys ==
    {"id", "title", "class", "className", "style", "checked", "disabled",
     "selected", "value", "onClick", "onInput"}
BindValues ==
    {StrVal("x"), StrVal(""), BoolVal("true"), BoolVal("false"),
     FnVal("f1"), ObjVal("styleRed")}
BindBases ==
    {ElementNode("div"),
     bindAttrs(ElementNode("div"),
               <<Entry("id", StrVal("y")), Entry("onClick", FnVal("f2"))>>, 1)}

\* the handlers and the event names given to the event system, and the
\* events that fire
Handlers == {FnVal("f1"), FnVal("f2")}
EventNames == {"click", "online"}
ListenerNames == {"click", "onclick", "online"}
FiredEvents == {"click", "online", "line"}

\* the listeners subscribed to a store and the arguments of setState
Listeners == {"l1", "l2", "l3"}
SetStateArgs ==
    {StateArg(<<Entry("n", "1")>>), StateArg(<<Entry("n", "2")>>),
     StateArg(<<Entry("m", "1")>>), UpdaterArg("clear"), UpdaterArg("touch")}

\* the event names, handlers and payloads given to the emitter
EmitterNames == {"a", "b"}
EmitterHandlers == {"h1", "h2"}
Payloads == {"p1", "p2"}

\* the route patterns registered, the locations visited, and the functions
\* given to the router
Patterns ==
    {RootPath,
     <<Seg(""), Seg("user"), Param("id")>>,
     <<Seg(""), Seg("user"), Seg("me")>>}
Hashes ==
    {NoHash, Hash(RootPath),
     Hash(<<Seg(""), Seg("user"), Seg("me")>>),
     Hash(<<Seg(""), Seg("user"), Seg("7")>>),
     Hash(<<Seg(""), Seg("user")>>),
     Hash(<<Seg(""), Seg("about")>>)}
RouteHandlers == {"r1", "r2"}
NotFoundHandlers == {NoHandler, "nf"}
Callbacks == {"cb1", "cb2"}

\* the attribute mappings given to diffAttrs: distinct keys, in any order
AttrKeys == {"id", "class", "onClick"}
AttrValues == {StrVal("x"), StrVal("y"), FnVal("f1")}
AttrMaps ==
    {m \in SeqsUpTo([key : AttrKeys, value : AttrValues], MaxAttrs) :
        \A i, j \in 1..Len(m) : i # j => m[i].key # m[j].key}

---------------------------------------------------------------------------
(* Specifications.                                                         *)

NoCall == LastCall("none", NullTarget, Null, NoContainer, "none", NoEntry, <<>>, <<>>)

\* the history before the first call
NoHistory(contents) ==
    [mounted |-> [c \in Containers |-> NoEntry],
     clean |-> [c \in Containers |-> TRUE],
     display |-> contents,
     cache |-> [c \in Containers |-> NoEntry]]

\* the history after a call that resolved to container and was given vNode
HistoryAfter(container, vNode) ==
    IF container = NoContainer
    THEN [hist EXCEPT !.display = display, !.cache = cache]
    ELSE [hist EXCEPT !.mounted[container] = vNode,
                      !.clean[container] = @ /\ Clean(vNode),
                      !.display = display,
                      !.cache = cache]

DomInit ==
    /\ display \in [Containers -> InitialContents]
    /\ cache = [c \in Containers |-> NoEntry]
    /\ console = 0
    /\ calls = 0
    /\ last = NoCall
    /\ hist = NoHistory(display)

DomIdle ==
    /\ display = [c \in Containers |-> <<>>]
    /\ cache = [c \in Containers |-> NoEntry]
    /\ console = 0
    /\ calls = 0
    /\ last = NoCall
    /\ hist = NoHistory(display)

DiffIdle == dOld = Null /\ dNew = Null /\ dPatch = NoPatch /\ dpc = "idle"
AttrIdle == aOld = <<>> /\ aNew = <<>> /\ aPatches = <<>> /\ apc = "idle"
BuildIdle == cArg = <<>> /\ cBuilt = Null /\ cpc = "idle"
BindIdle ==
    /\ nKey = "id" /\ nValue = StrVal("x") /\ nBase = NoNode
    /\ nMat = NoNode /\ nPat = [node |-> NoNode, err |-> "none"] /\ npc = "idle"
NoEventCall ==
    [op |-> "none", event |-> "none", handler |-> Undefined, before |-> <<>>,
     invoked |-> <<>>, err |-> "none"]
EventIdle == eNode = NoNode /\ eLast = NoEventCall
NoStoreCall ==
    [op |-> "none", fn |-> "none", atCall |-> <<>>, unsubscribed |-> {},
     notified |-> <<>>]
StoreIdle ==
    /\ storeKind = "none" /\ storeState = <<>> /\ listeners = <<>>
    /\ armed = {} /\ unsubscribed = {} /\ sLast = NoStoreCall
NoEmitterCall ==
    [op |-> "none", name |-> "none", handler |-> "none", payload |-> "none",
     atCall |-> <<>>, invoked |-> <<>>]
EmitterIdle == emitterEvents = <<>> /\ wrappers = <<>> /\ mLast = NoEmitterCall
NoRouterCall == [op |-> "none", dispatched |-> FALSE, invoked |-> <<>>]
RouterIdle ==
    /\ router = RouterState /\ hash = NoHash /\ listening = FALSE
    /\ rLast = NoRouterCall

\* mount(target, vNode)
Mount ==
    /\ calls < MaxCalls
    /\ \E in \in MountInputs :
          /\ mount(in[1], in[2], "mount")
          /\ hist' = HistoryAfter(Resolve(in[1]), in[2])
    /\ calls' = calls + 1
    /\ UNCHANGED <<diffVars, attrVars, buildVars, bindVars, eventVars, storeVars,
                   emitterVars, routerVars>>

\* render(component, target)
Render ==
    /\ calls < MaxCalls
    /\ \E in \in RenderInputs :
          /\ render(in[1], in[2])
          /\ hist' = HistoryAfter(Resolve(in[2]), ComponentVNode(in[1]))
    /\ calls' = calls + 1
    /\ UNCHANGED <<diffVars, attrVars, buildVars, bindVars, eventVars, storeVars,
                   emitterVars, routerVars>>

Init == DomInit /\ DiffIdle /\ AttrIdle /\ BuildIdle /\ BindIdle /\ EventIdle
        /\ StoreIdle /\ EmitterIdle /\ RouterIdle
Next == Mount \/ Render
Spec == Init /\ [][Next]_vars

\* diff(dOld, dNew)
DiffCall ==
    /\ dpc = "input"
    /\ dPatch' = diff(dOld, dNew)
    /\ dpc' = "done"
    /\ UNCHANGED <<dOld, dNew, domVars, attrVars, buildVars, bindVars, eventVars,
                   storeVars,
                   emitterVars, routerVars>>

InitDiff ==
    /\ DomIdle /\ AttrIdle /\ BuildIdle /\ BindIdle /\ EventIdle
    /\ StoreIdle /\ EmitterIdle /\ RouterIdle
    /\ dOld \in DiffNodes /\ dNew \in DiffNodes
    /\ dPatch = NoPatch /\ dpc = "input"
NextDiff == DiffCall
SpecDiff == InitDiff /\ [][NextDiff]_vars

\* diffAttrs(aOld, aNew)
DiffAttrsCall ==
    /\ apc = "input"
    /\ aPatches' = diffAttrs(aOld, aNew)
    /\ apc' = "done"
    /\ UNCHANGED <<aOld, aNew, domVars, diffVars, buildVars, bindVars, eventVars,
                   storeVars,
                   emitterVars, routerVars>>

InitAttrs ==
    /\ DomIdle /\ DiffIdle /\ BuildIdle /\ BindIdle /\ EventIdle
    /\ StoreIdle /\ EmitterIdle /\ RouterIdle
    /\ aOld \in AttrMaps /\ aNew \in AttrMaps
    /\ aPatches = <<>> /\ apc = "input"
NextAttrs == DiffAttrsCall
SpecAttrs == InitAttrs /\ [][NextAttrs]_vars

\* createElement("div", {}, cArg)
CreateElementCall ==
    /\ cpc = "input"
    /\ cBuilt' = createElement("div", <<>>, cArg)
    /\ cpc' = "done"
    /\ UNCHANGED <<cArg, domVars, diffVars, attrVars, bindVars, eventVars, storeVars,
                   emitterVars, routerVars>>

InitBuild ==
    /\ DomIdle /\ DiffIdle /\ AttrIdle /\ BindIdle /\ EventIdle
    /\ StoreIdle /\ EmitterIdle /\ RouterIdle
    /\ cArg \in ChildrenArgs
    /\ cBuilt = Null /\ cpc = "input"
NextBuild == CreateElementCall
SpecBuild == InitBuild /\ [][NextBuild]_vars

\* the binding of (nKey, nValue) to nBase by the attribute loop of
\* createDOMElement, and by patchAttrs given the one change (nKey, nValue)
BindBoth ==
    /\ npc = "input"
    /\ nMat' = bindAttr(nBase, nKey, nValue)
    /\ nPat' = patchAttrs(nBase, <<Entry(nKey, nValue)>>)
    /\ npc' = "done"
    /\ UNCHANGED <<nKey, nValue, nBase, domVars, diffVars, attrVars,
                   buildVars, eventVars, storeVars,
                   emitterVars, routerVars>>

InitBind ==
    /\ DomIdle /\ DiffIdle /\ AttrIdle /\ BuildIdle /\ EventIdle
    /\ StoreIdle /\ EmitterIdle /\ RouterIdle
    /\ nKey \in BindKeys /\ nValue \in BindValues /\ nBase \in BindBases
    /\ nMat = NoNode /\ nPat = [node |-> NoNode, err |-> "none"]
    /\ npc = "input"
NextBind == BindBoth
SpecBind == InitBind /\ [][NextBind]_vars

\* the calls on the event system of one display element
EventCall(op, event, handler, element, result) ==
    /\ eNode' = element
    /\ eLast' = [op |-> op, event |-> event, handler |-> handler,
                 before |-> HandlersOf(eNode, event),
                 invoked |-> result.invoked, err |-> result.err]
    /\ UNCHANGED <<domVars, diffVars, attrVars, buildVars, bindVars, storeVars,
                   emitterVars, routerVars>>

NoDispatch == [invoked |-> <<>>, err |-> "none"]

\* bindEvent(eNode, event, handler)
BindEvent ==
    \E event \in EventNames, handler \in Handlers :
        /\ Len(HandlersOf(eNode, event)) < MaxHandlers
        /\ EventCall("bindEvent", event, handler,
                     bindEvent(eNode, event, handler), NoDispatch)

\* addListener(eNode, event, handler)
AddListener ==
    \E event \in ListenerNames, handler \in Handlers :
        /\ Len(HandlersOf(eNode, StripOn[event])) < MaxHandlers
        /\ EventCall("addListener", StripOn[event], handler,
                     addListener(eNode, event, handler), NoDispatch)

\* removeListener(eNode, event, handler), also as the cleanup function
\* addListener returned
RemoveListener ==
    \E event \in ListenerNames, handler \in Handlers :
        EventCall("removeListener", StripOn[event], handler,
                  removeListener(eNode, event, handler), NoDispatch)

\* removeAllListeners(eNode)
RemoveAllListeners ==
    EventCall("removeAllListeners", "none", Undefined,
              removeAllListeners(eNode), NoDispatch)

\* the event fires on eNode
Dispatch ==
    \E event \in FiredEvents :
        EventCall("dispatch", event, Undefined, eNode, dispatchEvent(eNode, event))

InitEvents ==
    /\ DomIdle /\ DiffIdle /\ AttrIdle /\ BuildIdle /\ BindIdle
    /\ StoreIdle /\ EmitterIdle /\ RouterIdle
    /\ eNode = ElementNode("button")
    /\ eLast = NoEventCall
NextEvents ==
    BindEvent \/ AddListener \/ RemoveListener \/ RemoveAllListeners \/ Dispatch
SpecEvents == InitEvents /\ [][NextEvents]_vars

\* the calls on one store; every listener function has at most one
\* subscription at a time
StoreCall(op, fn, st) ==
    /\ listeners' = st.listeners
    /\ armed' = st.armed
    /\ unsubscribed' = st.unsubscribed
    /\ sLast' = [op |-> op, fn |-> fn, atCall |-> listeners,
                 unsubscribed |-> unsubscribed, notified |-> st.notified]
    /\ UNCHANGED <<storeKind, domVars, diffVars, attrVars, buildVars, bindVars,
                   eventVars, emitterVars, routerVars>>

StoreNow == Notifying(listeners, armed, unsubscribed)

\* store.setState(newState)
SetState ==
    \E newState \in SetStateArgs :
        LET next == setStateValue(storeKind, storeState, newState)
        IN  /\ storeState' = next
            /\ StoreCall("setState", "none", notifyAll(StoreNow, next))

\* store.subscribe(fn)
Subscribe ==
    \E fn \in Listeners :
        /\ IndexOf(listeners, fn) = 0
        /\ StoreCall("subscribe", fn, subscribe(StoreNow, fn, storeState))
        /\ UNCHANGED storeState

\* the unsubscribe function that an earlier subscribe(fn) returned, called
\* from outside a notification
Unsubscribe ==
    \E fn \in Listeners :
        /\ fn \in unsubscribed \/ IndexOf(listeners, fn) > 0
        /\ StoreCall("unsubscribe", fn, unsubscribe(StoreNow, fn))
        /\ UNCHANGED storeState

InitStore ==
    /\ DomIdle /\ DiffIdle /\ AttrIdle /\ BuildIdle /\ BindIdle /\ EventIdle
    /\ EmitterIdle /\ RouterIdle
    /\ storeKind \in {"createStore", "Store"}
    /\ storeState = <<>>
    /\ listeners = <<>>
    /\ armed = {} /\ unsubscribed = {}
    /\ sLast = NoStoreCall
NextStore == SetState \/ Subscribe \/ Unsubscribe
SpecStore == InitStore /\ [][NextStore]_vars

\* the calls on one EventEmitter
EmitterCall(op, name, handler, payload, st) ==
    /\ emitterEvents' = st.events
    /\ wrappers' = st.wrappers
    /\ mLast' = [op |-> op, name |-> name, handler |-> handler,
                 payload |-> payload,
                 atCall |-> Subscribed(emitterEvents, name),
                 invoked |-> st.invoked]
    /\ UNCHANGED <<domVars, diffVars, attrVars, buildVars, bindVars, eventVars,
                   storeVars, routerVars>>

EmitterNow == Emitting(emitterEvents, wrappers)

\* emitter.on(eventName, handler)
On ==
    \E name \in EmitterNames, handler \in EmitterHandlers :
        /\ Len(Subscribed(emitterEvents, name)) < MaxSubscribed
        /\ EmitterCall("on", name, handler, "none",
                       on(EmitterNow, name, Plain(handler)))

\* emitter.once(eventName, handler)
Once ==
    \E name \in EmitterNames, handler \in EmitterHandlers :
        /\ Len(Subscribed(emitterEvents, name)) < MaxSubscribed
        /\ Len(wrappers) < MaxOnce
        /\ EmitterCall("once", name, handler, "none",
                       once(EmitterNow, name, handler))

\* emitter.off(eventName, handler), also as the function on returned
Off ==
    \E name \in EmitterNames, handler \in EmitterHandlers :
        EmitterCall("off", name, handler, "none",
                    off(EmitterNow, name, Plain(handler)))

\* emitter.emit(eventName, payload)
Emit ==
    \E name \in EmitterNames, payload \in Payloads :
        EmitterCall("emit", name, "none", payload,
                    emit(EmitterNow, name, payload))

\* emitter.removeAll(eventName), emitter.removeAll()
RemoveAll ==
    \E name \in EmitterNames \cup {"undefined"} :
        EmitterCall("removeAll", name, "none", "none",
                    removeAll(EmitterNow, name))

InitEmitter ==
    /\ DomIdle /\ DiffIdle /\ AttrIdle /\ BuildIdle /\ BindIdle /\ EventIdle
    /\ StoreIdle /\ RouterIdle
    /\ emitterEvents = <<>>
    /\ wrappers = <<>>
    /\ mLast = NoEmitterCall
NextEmitter == On \/ Once \/ Off \/ Emit \/ RemoveAll
SpecEmitter == InitEmitter /\ [][NextEmitter]_vars

\* the calls on the router
RouterCall(op, dispatched, st) ==
    /\ router' = st.state
    /\ rLast' = [op |-> op, dispatched |-> dispatched, invoked |-> st.invoked]
    /\ UNCHANGED <<domVars, diffVars, attrVars, buildVars, bindVars, eventVars,
                   storeVars, emitterVars>>

RouterNow == Routing(router)

\* initRouter(): binds handleRouteChange to hashchange and handles the
\* initial route
InitRouter ==
    /\ ~listening
    /\ listening' = TRUE
    /\ RouterCall("initRouter", TRUE, handleRouteChange(RouterNow, hash))
    /\ UNCHANGED hash

\* navigate(path), or the user changes the location: the hash changes and
\* the browser fires hashchange, which runs handleRouteChange if it is bound
Navigate ==
    \E h \in Hashes :
        /\ h # hash
        /\ hash' = h
        /\ IF listening
           THEN RouterCall("navigate", TRUE, handleRouteChange(RouterNow, h))
           ELSE RouterCall("navigate", FALSE, RouterNow)
        /\ UNCHANGED listening

\* addRoute(path, handler)
AddRoute ==
    \E path \in Patterns, handler \in RouteHandlers :
        /\ RouterCall("addRoute", FALSE, addRoute(RouterNow, path, handler))
        /\ UNCHANGED <<hash, listening>>

\* setNotFound(handler)
SetNotFound ==
    \E handler \in NotFoundHandlers :
        /\ RouterCall("setNotFound", FALSE, setNotFound(RouterNow, handler))
        /\ UNCHANGED <<hash, listening>>

\* onRouteChange(callback); every callback has at most one subscription at
\* a time
OnRouteChange ==
    \E callback \in Callbacks :
        /\ IndexOf(router.callbacks, callback) = 0
        /\ RouterCall("onRouteChange", FALSE, onRouteChange(RouterNow, callback))
        /\ UNCHANGED <<hash, listening>>

\* the unsubscribe function that onRouteChange(callback) returned
OffRouteChange ==
    \E callback \in Callbacks :
        /\ RouterCall("unsubscribe", FALSE, offRouteChange(RouterNow, callback))
        /\ UNCHANGED <<hash, listening>>

InitRouting ==
    /\ DomIdle /\ DiffIdle /\ AttrIdle /\ BuildIdle /\ BindIdle /\ EventIdle
    /\ StoreIdle /\ EmitterIdle
    /\ router = RouterState
    /\ hash \in Hashes
    /\ listening = FALSE
    /\ rLast = NoRouterCall
NextRouter ==
    InitRouter \/ Navigate \/ AddRoute \/ SetNotFound \/ OnRouteChange
        \/ OffRouteChange
SpecRouter == InitRouting /\ [][NextRouter]_vars

---------------------------------------------------------------------------
(* The vocabulary of the properties.                                       *)

IsAbsent(node) == node.kind \in {"null", "undefined", "false"}
IsText(node) == node.kind \in {"string", "number"}
IsElement(node) == node.kind = "element"

\* the display children of an empty container into which vNode is materialized
Materialized(vNode) ==
    LET node == createDOMElement(vNode)
    IN  IF node = NoNode THEN <<>> ELSE <<node>>

StructuralCalls == {"appendChild", "removeChild", "replaceChild"}
Structural(log) == {i \in 1..Len(log) : log[i] \in StructuralCalls}

\* the call returned normally after resolving its container
Rendered == last.outcome \in {"first", "update"}

\* a patch that changes nothing: NONE, or an UPDATE with no attribute change
\* whose child patches all change nothing
RECURSIVE IsEmptyPatch(_)
IsEmptyPatch(p) ==
    \/ p.type = "NONE"
    \/ /\ p.type = "UPDATE"
       /\ p.attrs = <<>>
       /\ \A i \in 1..Len(p.children) : IsEmptyPatch(p.children[i])

\* children[i] (1-based), an out-of-range index counting as Absent
ChildOrAbsent(children, i) == IF i <= Len(children) THEN children[i] ELSE Undefined

\* the number of elements of S that are at most i
Rank(S, i) == Cardinality({j \in S : j <= i})

---------------------------------------------------------------------------
(* C1..C10.                                                                *)

\* C1 (convergence): after every mount or render call that resolved its
\* container and returned, the display tree under the container equals the
\* direct materialization of the description given to that call.
C1_Convergence ==
    Rendered => display[last.container] = Materialized(last.vNode)

\* C2 (idempotence of re-render): a call that gives a container the
\* description it already shows (the cached one) leaves its display tree as
\* it was and adds, removes and replaces no display node.
C2_IdempotentRerender ==
    (Rendered /\ last.entry = last.vNode)
        => /\ display[last.container] = last.before
           /\ Structural(last.log) = {}

\* C3 (round-trip identity): diff(D, D) of an Element D is an UPDATE with an
\* empty attribute-change list whose child patches are, at every depth, NONE
\* or empty UPDATEs; it holds no CREATE, REMOVE or REPLACE.
C3_SelfDiffIsEmpty ==
    (dpc = "done" /\ IsElement(dOld) /\ dOld = dNew)
        => (dPatch.type = "UPDATE" /\ IsEmptyPatch(dPatch))

\* C4 (first render): a call on a resolved container that has no cache entry
\* removes whatever the container held and leaves exactly the materialization
\* of the description: nothing when the description is Absent.
C4_FirstRender ==
    (last.outcome # "none" /\ last.container # NoContainer /\ last.entry = NoEntry)
        => /\ last.outcome = "first"
           /\ display[last.container] = Materialized(last.vNode)
           /\ IsAbsent(last.vNode) => display[last.container] = <<>>
           /\ cache[last.container] = last.vNode

C4_Witness ==
    /\ last.outcome = "first" /\ last.entry = NoEntry
    /\ last.before # <<>>
    /\ IsElement(last.vNode) /\ Len(last.vNode.children) = 2
    /\ Len(display[last.container]) = 1
    /\ Len(display[last.container][1].childNodes) = 2

\* C5 (structural mismatch is a hard failure): a call in which an UPDATE patch
\* was addressed at an index that holds no display child fails; the UPDATE is
\* never silently skipped.
C5_MismatchIsFatal ==
    (\E i \in 1..Len(last.log) : last.log[i] = "skipUpdate")
        => last.outcome = "threw"

\* C6 (resolution failure): a mount or render call whose target resolves to
\* no container reports the failure, returns without throwing, and changes
\* no display tree and no cache entry.
UnresolvableTargets == {SelectorTarget("#missing"), NullTarget}
C6_ResolutionFailure ==
    [][(calls' = calls + 1 /\ last'.target \in UnresolvableTargets)
          => /\ last'.outcome = "notfound"
             /\ console' = console + 1
             /\ display' = display
             /\ cache' = cache]_vars

C6_Witness ==
    /\ last.outcome = "notfound" /\ last.op = "render"
    /\ last.target = SelectorTarget("#missing")
    /\ cache["c1"] # NoEntry /\ display["c1"] # <<>>
    /\ console = 1

\* C7 (patch-tag invariant): diff gives UPDATE only for two Elements of the
\* same tag, REPLACE(new) for two present nodes that differ in kind or are
\* Elements of different tags, CREATE(new) exactly when old is Absent and
\* REMOVE exactly when old is present and new is Absent.
C7_PatchTags ==
    dpc = "done" =>
        /\ dPatch.type = "UPDATE"
              => (IsElement(dOld) /\ IsElement(dNew) /\ dOld.tag = dNew.tag)
        /\ ( \/ IsText(dOld) /\ IsElement(dNew)
             \/ IsElement(dOld) /\ IsText(dNew)
             \/ IsElement(dOld) /\ IsElement(dNew) /\ dOld.tag # dNew.tag )
              => dPatch = ReplacePatch(dNew)
        /\ (dPatch.type = "CREATE") <=> IsAbsent(dOld)
        /\ dPatch.type = "CREATE" => dPatch = CreatePatch(dNew)
        /\ (dPatch.type = "REMOVE") <=> (~IsAbsent(dOld) /\ IsAbsent(dNew))

\* C8 (text rule): for two Text scalars diff gives NONE when they are equal
\* by value and REPLACE(new) when they are not.
C8_TextRule ==
    (dpc = "done" /\ IsText(dOld) /\ IsText(dNew))
        => dPatch = IF dOld = dNew THEN NoPatch ELSE ReplacePatch(dNew)

\* C9 (attribute diff): the attribute-change list is one (key, newValue) for
\* each key of new whose value differs from old's or that old lacks, in new's
\* key order, then one (key, absent sentinel) for each key of old that new
\* lacks, in old's key order, and nothing else.
C9_AttrDiff ==
    apc = "done" =>
        LET changed == {i \in 1..Len(aNew) :
                           \/ \A j \in 1..Len(aOld) : aOld[j].key # aNew[i].key
                           \/ \E j \in 1..Len(aOld) :
                                 /\ aOld[j].key = aNew[i].key
                                 /\ aOld[j].value # aNew[i].value}
            removed == {i \in 1..Len(aOld) :
                           \A j \in 1..Len(aNew) : aNew[j].key # aOld[i].key}
        IN  /\ Len(aPatches) = Cardinality(changed) + Cardinality(removed)
            /\ \A i \in changed :
                  aPatches[Rank(changed, i)] = Entry(aNew[i].key, aNew[i].value)
            /\ \A i \in removed :
                  aPatches[Cardinality(changed) + Rank(removed, i)]
                      = Entry(aOld[i].key, UndefinedVal)

C9_Witness ==
    /\ apc = "done"
    /\ aOld = <<Entry("id", StrVal("x")), Entry("class", StrVal("x"))>>
    /\ aNew = <<Entry("class", StrVal("y"))>>
    /\ aPatches = <<Entry("class", StrVal("y")), Entry("id", UndefinedVal)>>

\* the two Elements given to diff have the same tag
SameTagElements == IsElement(dOld) /\ IsElement(dNew) /\ dOld.tag = dNew.tag

\* C10 as stated (index-aligned child patches): the child-patch list has
\* length max(len(old.children), len(new.children)), entry i is
\* diff(old.children[i], new.children[i]) with an out-of-range index Absent,
\* and so an unchanged prefix yields NONE entries, appended children CREATE
\* entries and dropped trailing children REMOVE entries.
C10_AsStated ==
    (dpc = "done" /\ SameTagElements) =>
        LET old == dOld.children
            new == dNew.children
            p == dPatch.children
        IN  /\ dPatch.type = "UPDATE"
            /\ Len(p) = IF Len(old) >= Len(new) THEN Len(old) ELSE Len(new)
            /\ \A i \in 1..Len(p) :
                  /\ p[i] = diff(ChildOrAbsent(old, i), ChildOrAbsent(new, i))
                  /\ (i <= Len(old) /\ i <= Len(new) /\ old[i] = new[i])
                        => p[i] = NoPatch
                  /\ i > Len(old) => p[i] = CreatePatch(new[i])
                  /\ i > Len(new) => p[i] = RemovePatch

\* C10 (amended): the same, where an unchanged child x yields diff(x, x)
\* (NONE for a Text other than "" and 0, an UPDATE without attribute changes
\* for an Element, CREATE(x) for an Absent, "" or 0) and a dropped trailing
\* child x yields diff(x, Absent) (REMOVE, but CREATE(Absent) for an Absent,
\* "" or 0).
C10_IndexAligned ==
    (dpc = "done" /\ SameTagElements) =>
        LET old == dOld.children
            new == dNew.children
            p == dPatch.children
        IN  /\ dPatch.type = "UPDATE"
            /\ Len(p) = IF Len(old) >= Len(new) THEN Len(old) ELSE Len(new)
            /\ \A i \in 1..Len(p) :
                  /\ p[i] = diff(ChildOrAbsent(old, i), ChildOrAbsent(new, i))
                  /\ (i <= Len(old) /\ i <= Len(new) /\ old[i] = new[i])
                        => /\ (IsText(old[i]) /\ ~Falsy(old[i])) => p[i] = NoPatch
                           /\ IsElement(old[i])
                                 => (p[i].type = "UPDATE" /\ p[i].attrs = <<>>)
                           /\ Falsy(old[i]) => p[i] = CreatePatch(old[i])
                  /\ i > Len(old) => p[i] = CreatePatch(new[i])
                  /\ (i > Len(new) /\ ~Falsy(old[i])) => p[i] = RemovePatch
                  /\ (i > Len(new) /\ Falsy(old[i])) => p[i] = CreatePatch(Undefined)

C10_Witness ==
    /\ dpc = "done"
    /\ dOld = Div(<<>>, <<StringNode("a")>>)
    /\ dNew = Div(<<>>, <<StringNode("a"), Span(<<>>)>>)
    /\ dPatch = UpdatePatch(<<>>, <<NoPatch, CreatePatch(Span(<<>>))>>)

---------------------------------------------------------------------------
(* C11..C20.                                                               *)

\* the non-sequence leaves of a nested children argument, left to right
RECURSIVE Leaves(_)
Leaves(items) ==
    IF items = <<>> THEN <<>>
    ELSE LET head == items[1]
         IN  (IF head.kind = "array" THEN Leaves(head.items) ELSE <<head>>)
                 \o Leaves(Tail(items))

\* C11 (children flattening): for a children argument nested to any depth,
\* the Element built stores a children sequence that holds no sequence: the
\* left-to-right list of the non-sequence leaves of the argument.
C11_Flattened ==
    cpc = "done" =>
        /\ \A i \in 1..Len(cBuilt.children) : cBuilt.children[i].kind # "array"
        /\ cBuilt.children = Leaves(cArg)

\* the keys the binding policy assigns as live properties
LiveKeys == {"checked", "disabled", "selected", "value"}

\* C12 (one attribute-binding policy): binding a key and a value during
\* materialization has the same effect on the display element as binding
\* them through an attribute-change record in the Patcher; checked,
\* disabled, selected and value are assigned as live properties on both
\* paths, never as generic string attributes.
C12_OnePolicy ==
    npc = "done" =>
        /\ nPat.err = "none"
        /\ nPat.node = nMat
        /\ nKey \in LiveKeys =>
              \A node \in {nMat, nPat.node} :
                  /\ HasKey(node.props, nKey)
                  /\ Get(node.props, nKey) = nValue
                  /\ ~HasKey(node.attributes, nKey)

\* the display node still carries what binding the key had set: the class
\* attribute for class / className, the property or the attribute of the
\* key for a live key, the attribute of the key for any other key
Carries(node, key) ==
    IF key \in {"class", "className"} THEN HasKey(node.attributes, "class")
    ELSE IF key \in LiveKeys
    THEN HasKey(node.props, key) \/ HasKey(node.attributes, key)
    ELSE HasKey(node.attributes, key)

\* the keys C13 covers: generic attributes, class / className, live keys
RemovableKey(key) == ~StartsWithOn(key) /\ key # "style"

\* the last call re-rendered, at the root position, an Element of the tag
\* of the Element of the previous render
RootUpdated ==
    /\ last.outcome = "update"
    /\ IsElement(last.entry) /\ IsElement(last.vNode)
    /\ last.entry.tag = last.vNode.tag

\* C13 (attribute removal): when a key carried by the Element of the
\* previous render is absent from the Element of the next render at the
\* same position, the display node no longer carries, after the mount, the
\* attribute or property that key had set.
C13_Removal ==
    RootUpdated =>
        LET children == display[last.container]
        IN  \A key \in Keys(last.entry.attrs) \ Keys(last.vNode.attrs) :
                (RemovableKey(key) /\ Len(children) >= 1)
                    => ~Carries(children[1], key)

\* C14 (event handler accumulation): binding a handler to a (node, event)
\* pair that already has handlers adds it after them and removes none of
\* them, and one dispatch of the event on the node invokes every handler
\* bound to the pair exactly once, in the order in which they were bound.
C14_Accumulation ==
    /\ eLast.op = "bindEvent" =>
          HandlersOf(eNode, eLast.event) = Append(eLast.before, eLast.handler)
    /\ eLast.op = "dispatch" =>
          /\ eLast.err = "none"
          /\ eLast.invoked = HandlersOf(eNode, eLast.event)
          /\ eLast.invoked = eLast.before

C14_Witness ==
    /\ eLast.op = "dispatch"
    /\ eLast.event = "click"
    /\ eLast.invoked = <<FnVal("f2"), FnVal("f1")>>

\* C15 (Mount Cache invariant): after any sequence of mount calls over any
\* containers, the cache entry of each container is the description passed
\* to the most recent call that resolved to it, a container never mounted
\* into has no entry, and a call into one container changes neither the
\* cache entry nor the display tree of another container.
C15_CacheInvariant ==
    /\ \A c \in Containers : cache[c] = hist.mounted[c]
    /\ \A c \in Containers \ {last.container} :
          /\ cache[c] = hist.cache[c]
          /\ display[c] = hist.display[c]

\* C16 (best effort across siblings): a child patch that fails during an
\* UPDATE leaves the sibling patches already applied in place and the
\* remaining indices are still applied; no such failure ends the render
\* call (only an exception of the event-binding collaborator does, and
\* bindEvent throws none).
C16_BestEffort ==
    /\ last.outcome # "threw"
    /\ \A i \in 1..Len(last.log) : last.log[i] # "skipSiblings"

\* C17 (store notification): for every sequence of subscribe, unsubscribe
\* and setState calls, with listeners that call their unsubscribe function
\* inside their own notification, a setState invokes every listener that is
\* subscribed when it is called exactly once with the new state, in
\* subscription order, and invokes no listener whose unsubscribe function
\* had returned.
C17_Notification ==
    sLast.op = "setState" =>
        /\ sLast.notified =
              [i \in 1..Len(sLast.atCall) |->
                  [fn |-> sLast.atCall[i], state |-> storeState]]
        /\ \A i \in 1..Len(sLast.notified) :
              sLast.notified[i].fn \notin sLast.unsubscribed

\* C18 (once is one-time): in any interleaving of on, once, off and emit
\* calls, a handler registered with once(name, h) is invoked by the first
\* emit of the name that follows the registration and by no later emit: it
\* has not run before an emit of the name, and has run exactly once after
\* one or more.
C18_OnceIsOneTime ==
    \A i \in 1..Len(wrappers) :
        ~wrappers[i].removed =>
            /\ wrappers[i].emits = 0 => wrappers[i].fired = 0
            /\ wrappers[i].emits >= 1 => wrappers[i].fired = 1

\* a pattern matches a path: as many '/'-separated segments, and every
\* segment of the pattern that has no leading ':' equal to the path's
PatternMatches(pattern, path) ==
    /\ Len(pattern) = Len(path)
    /\ \A i \in 1..Len(pattern) : ~pattern[i].colon => pattern[i] = path[i]

\* the parameters hold, under the name of every ':' segment of the pattern,
\* the segment of the path at its place
ExtractedFrom(params, pattern, path) ==
    /\ params.kind = "object"
    /\ Keys(params.entries) =
          {pattern[i].text : i \in {j \in 1..Len(pattern) : pattern[j].colon}}
    /\ \A i \in 1..Len(pattern) :
          pattern[i].colon =>
              Get(params.entries, pattern[i].text) = SegString(path[i])

InvokedOfKind(kind) ==
    LET OfKind(call) == call.kind = kind IN SelectSeq(rLast.invoked, OfKind)

\* C19 (route dispatch): on every route change at most one route handler is
\* invoked, the handler of the first registered pattern that matches the
\* path, with the extracted parameters; the not-found handler is invoked if
\* and only if no pattern matches and one is set; every subscribed
\* route-change callback is invoked exactly once with the path; and
\* getCurrentRoute() returns the path afterwards.
C19_RouteDispatch ==
    rLast.dispatched =>
        LET path == getCleanRoute(hash)
            routes == router.routes
            matching == {i \in 1..Len(routes) : PatternMatches(routes[i].key, path)}
            routeCalls == InvokedOfKind("route")
            notFoundCalls == InvokedOfKind("notFound")
            callbackCalls == InvokedOfKind("callback")
        IN  /\ Len(routeCalls) <= 1
            /\ matching = {} => routeCalls = <<>>
            /\ matching # {} =>
                  LET first == CHOOSE i \in matching : \A j \in matching : i <= j
                  IN  /\ Len(routeCalls) = 1
                      /\ routeCalls[1].fn = routes[first].value
                      /\ ExtractedFrom(routeCalls[1].params, routes[first].key, path)
            /\ notFoundCalls =
                  IF matching = {} /\ router.notFoundHandler # NoHandler
                  THEN <<NotFoundCall(router.notFoundHandler, path)>>
                  ELSE <<>>
            /\ Len(callbackCalls) = Len(router.callbacks)
            /\ \A i \in 1..Len(callbackCalls) :
                  /\ callbackCalls[i].fn = router.callbacks[i]
                  /\ callbackCalls[i].path = path
            /\ router.currentRoute = path

C19_Witness ==
    /\ rLast.op = "navigate" /\ rLast.dispatched
    /\ hash = Hash(<<Seg(""), Seg("user"), Seg("me")>>)
    /\ Len(router.routes) = 3
    /\ router.routes[2].key = <<Seg(""), Seg("user"), Param("id")>>
    /\ router.routes[2].value = "r2"
    /\ router.routes[3].value = "r1"
    /\ router.callbacks = <<"cb2", "cb1">>
    /\ rLast.invoked =
          <<RouteCall("r2", Params(<<Entry("id", "me")>>)),
            CallbackCall("cb2", hash.path, Params(<<Entry("id", "me")>>)),
            CallbackCall("cb1", hash.path, Params(<<Entry("id", "me")>>))>>

\* a display element and the display elements below it have as many
\* children as the Elements at their positions in the description
RECURSIVE ChildCountsAgree(_, _)
ChildCountsAgree(node, vNode) ==
    (node.nodeType = "element" /\ IsElement(vNode)) =>
        /\ Len(node.childNodes) = Len(vNode.children)
        /\ \A i \in 1..Len(node.childNodes) :
              i <= Len(vNode.children)
                  => ChildCountsAgree(node.childNodes[i], vNode.children[i])

\* C20 (child-index alignment): if no description mounted into a container
\* holds an Absent child or a "" or 0 Text, then after each mount every
\* display element under the container has exactly as many display
\* children as its Element in the description mounted last, also when a
\* child list shrinks by two or more.
C20_ChildCounts ==
    \A c \in Containers :
        (hist.clean[c] /\ hist.mounted[c] # NoEntry /\ Len(display[c]) >= 1)
            => ChildCountsAgree(display[c][1], hist.mounted[c])

---------------------------------------------------------------------------
(* C21..C23.                                                               *)

IsPrefix(short, long) ==
    /\ Len(short) <= Len(long)
    /\ \A i \in 1..Len(short) : short[i] = long[i]

\* the on-prefixed keys of an attribute mapping that carry a function
HandlerKeys(attrs) ==
    {attrs[i].key : i \in {j \in 1..Len(attrs) :
        StartsWithOn(attrs[j].key) /\ attrs[j].value.t = "function"}}

\* C21 (handlers are never unbound by re-rendering): for a display node
\* whose position is patched by UPDATE, the handlers bound to each of its
\* events only grow across the mount; a different function under an
\* on-prefixed key is added after the old one and a dispatch invokes both,
\* and when the key is dropped the old handler stays bound.
C21_HandlersOnlyGrow ==
    (RootUpdated /\ Len(last.before) >= 1 /\ Len(display[last.container]) >= 1) =>
        LET old == last.before[1]
            new == display[last.container][1]
            oldAttrs == last.entry.attrs
            newAttrs == last.vNode.attrs
        IN  /\ \A event \in Keys(old.events) :
                  IsPrefix(HandlersOf(old, event), HandlersOf(new, event))
            /\ \A key \in HandlerKeys(oldAttrs) :
                  LET event == EventNameOf(key)
                      before == HandlersOf(old, event)
                      after == HandlersOf(new, event)
                  IN  /\ key \in HandlerKeys(newAttrs)
                            /\ Get(newAttrs, key) # Get(oldAttrs, key)
                         => /\ after = Append(before, Get(newAttrs, key))
                            /\ IndexOf(after, Get(oldAttrs, key)) > 0
                      /\ ~HasKey(newAttrs, key)
                         => /\ after = before
                            /\ IndexOf(after, Get(oldAttrs, key)) > 0
                      /\ dispatchEvent(new, event) =
                            [invoked |-> after, err |-> "none"]

C21_Witness ==
    /\ RootUpdated
    /\ Get(last.entry.attrs, "onClick") = FnVal("f1")
    /\ Get(last.vNode.attrs, "onClick") = FnVal("f2")
    /\ Len(display[last.container]) = 1
    /\ dispatchEvent(display[last.container][1], "click").invoked =
          <<FnVal("f1"), FnVal("f2")>>

\* C22 (native listener invariant): after any sequence of bindEvent,
\* addListener, removeListener, removeAllListeners and cleanup calls on an
\* element, the on<event> dispatcher of the element is installed if and
\* only if the registry holds a non-empty handler list for the event, and
\* a dispatch invokes exactly the handlers of that list.
C22_NativeListener ==
    /\ \A event \in FiredEvents \cup eNode.native \cup Keys(eNode.events) :
          event \in eNode.native
              <=> (HasKey(eNode.events, event) /\ Get(eNode.events, event) # <<>>)
    /\ \A event \in FiredEvents :
          dispatchEvent(eNode, event) =
              [invoked |-> HandlersOf(eNode, event), err |-> "none"]

C22_Witness ==
    /\ eLast.op = "removeListener"
    /\ eLast.event = "click"
    /\ eLast.before = <<FnVal("f1")>>
    /\ "click" \notin eNode.native
    /\ ~HasKey(eNode.events, "click")
    /\ "online" \in eNode.native
    /\ HandlersOf(eNode, "online") = <<FnVal("f2"), FnVal("f1")>>

\* the function a handler of a list runs: its own, or the one its wrapper
\* was made for
FunctionOf(handler) ==
    IF handler.kind = "wrapper" THEN wrappers[handler.id].handler ELSE handler.fn

\* C23 (emit reaches every handler): emit(name, payload) invokes every
\* handler that is subscribed to the name when emit is called exactly once
\* with the payload, in subscription order, also when some of them were
\* registered with once or call off for themselves during the emit.
C23_EmitReachesAll ==
    mLast.op = "emit" =>
        mLast.invoked =
            [i \in 1..Len(mLast.atCall) |->
                [fn |-> FunctionOf(mLast.atCall[i]), payload |-> mLast.payload]]

=============================================================================
